---------------------------- MODULE Spec2Model ----------------------------
(***************************************************************************)
(* Model of the two drivers of the lattice Green function package:         *)
(*   - relaxation_wlammps.py : core relaxation coupled with LGF updates    *)
(*   - calc_LGF.py           : column-by-column assembly of the LGF        *)
(* Arrays are 0-based functions, as in numpy.  Real numbers that the code  *)
(* produces by division are kept as reduced fractions <<num, den>>.        *)
(***************************************************************************)
EXTENDS Integers, Sequences, FiniteSets, TLC

(* ------------------------------ bounds -------------------------------- *)
\* number of atoms in region 1 (core), 2 (coupling), 3 (buffer) and in the
\* part of the "in" region beyond region 3
NCore == 1
NCoupling == 3
NBuffer == 1
NPad == 1
\* largest value of -maxouteriter that is explored
MaxOuterIter == 3
\* how many times the LGF assembly may be killed and started again
MaxRestarts == 1

(* --------------------------- region sizes ----------------------------- *)
size_1 == NCore
size_12 == NCore + NCoupling
size_123 == NCore + NCoupling + NBuffer
size_2 == size_12 - size_1
size_in == size_123 + NPad

VARIABLES
    \* ---- relaxation_wlammps.py ----
    pc,               \* position of the driver
    method,           \* args.method
    maxouteriter,     \* args.maxouteriter
    ftol,             \* args.ftol
    h5,               \* the LGF file: attrs size_1, size_12, size_123 and dataset GF
    M,                \* rotation matrix from setup.readinputs
    G_mnt,            \* rotated LGF
    i,                \* index of the next outer iteration
    forces_12,        \* forces on regions 1+2 from the last force evaluation
    force_evolution,  \* list of force_max values
    grid_relaxed,     \* grid returned by lammps_minimize_getforces in the last cycle
    forces_2,         \* coupling forces of the last cycle
    grid_mat,         \* grid returned by the last relaxation_cycle
    datafile,         \* contents of dislgeom.data (the coordinates)
    forces_npy,       \* forces.npy on disk: [saved, data]
    outcome,          \* how the loop was left
    n_getforces,      \* number of lammps_getforces calls
    n_minimize,       \* number of lammps_minimize_getforces calls
    n_cycles,         \* number of relaxation_cycle calls
    \* ---- calc_LGF.py ----
    lpc,              \* position of the assembly
    LGF_jmin,
    LGF_jmax,
    j,
    d,
    G,                \* the growing LGF matrix, a sequence of columns
    Gfile,            \* args.Gfile on disk: [saved, cols]
    cg_input,         \* which read-only inputs (D, grid, EGF) the solves see
    convlog,          \* the conv flags logged so far by this process
    solves,           \* per atom, how many times its columns were solved
    restarts,         \* how many times the assembly was started again
    killed_at,        \* atom after whose checkpoint the process was killed (-1: never, -2: elsewhere)
    first_args,       \* <<LGF_jmin, LGF_jmax>> of the first start
    plan,             \* ranges still to be assembled, each to a file of its own
    outputs           \* files written by the finished assemblies of the plan

relaxVars == <<pc, method, maxouteriter, ftol, h5, M, G_mnt, i, forces_12,
               force_evolution, grid_relaxed, forces_2, grid_mat, datafile,
               forces_npy, outcome, n_getforces, n_minimize, n_cycles>>
lgfVars == <<lpc, LGF_jmin, LGF_jmax, j, d, G, Gfile, cg_input, convlog,
             solves, restarts, killed_at, first_args, plan, outputs>>
vars == <<relaxVars, lgfVars>>

(* --------------------------- arithmetic ------------------------------- *)
Abs(x) == IF x < 0 THEN -x ELSE x

RECURSIVE GCD(_, _)
GCD(a, b) == IF b = 0 THEN a ELSE GCD(b, a % b)

\* the fraction n/dn (dn > 0) in lowest terms
Rat(n, dn) ==
    LET g == GCD(Abs(n), dn)
    IN  IF n >= 0 THEN <<n \div g, dn \div g>> ELSE <<-((-n) \div g), dn \div g>>

RatAdd(p, q) == Rat(p[1] * q[2] + q[1] * p[2], p[2] * q[2])
RatSub(p, q) == Rat(p[1] * q[2] - q[1] * p[2], p[2] * q[2])
RatMulInt(p, k) == Rat(p[1] * k, p[2])
RatOfInt(k) == <<k, 1>>

RECURSIVE SumTo(_, _)
\* f[0] + ... + f[n-1]
SumTo(f, n) == IF n = 0 THEN 0 ELSE f[n - 1] + SumTo(f, n - 1)

RECURSIVE MaxTo(_, _)
\* max(f[0], ..., f[n-1]), n >= 1
MaxTo(f, n) ==
    IF n = 1 THEN f[0]
    ELSE LET m == MaxTo(f, n - 1) IN IF f[n - 1] > m THEN f[n - 1] ELSE m

RECURSIVE ArgMaxTo(_, _)
\* first index of the maximum of f[0..n-1] (numpy argmax)
ArgMaxTo(f, n) ==
    IF n = 1 THEN 0
    ELSE LET a == ArgMaxTo(f, n - 1) IN IF f[n - 1] > f[a] THEN n - 1 ELSE a

RECURSIVE Bisect(_, _, _)
\* largest r in lo..hi with r*r <= n
Bisect(n, lo, hi) ==
    IF lo >= hi THEN lo
    ELSE LET mid == (lo + hi + 1) \div 2
         IN  IF mid * mid <= n THEN Bisect(n, mid, hi) ELSE Bisect(n, lo, mid - 1)

\* np.sqrt on the values the model produces, which are perfect squares; any
\* other argument has no value here and stops the check
Sqrt(n) == CHOOSE r \in {Bisect(n, 0, 40000)} : r * r = n

(* ------------------- relaxation_wlammps.py: inputs -------------------- *)
\* default of relaxation_cycle's maxdisp; the driver never passes another
maxdisp == 100
\* the force norm above which the loop gives up (1E2)
ForceBlowUp == 100

Methods == {"dislLGF123", "dislLGF23", "perfbulkLGF123", "perfbulkLGF23"}
\* names the parser accepts (it has no choices=) that no branch handles
InvalidMethods == {"LGF123", "dislLGF12", "DISLLGF123", ""}
MethodArgs == Methods \cup InvalidMethods
FtolArgs == {1, 5}

Dof123 == 0 .. (3 * size_123 - 1)
Dof12 == 0 .. (3 * size_12 - 1)
Dof2 == 0 .. (3 * size_2 - 1)

\* Force fields the atomistic engine may return: every atom's force lies
\* along one axis of the field, with the per-atom value given by a profile.
Profiles == {"zero", "unit", "alt10", "big80", "spike200"}
CycleProfiles == {"alt10", "spike100"}
ProfileAxis(p) ==
    CASE p = "zero" -> 0 [] p = "unit" -> 2 [] p = "alt10" -> 0
      [] p = "big80" -> 1 [] p = "spike200" -> 2 [] p = "spike100" -> 2
ProfileVal(p, a) ==
    CASE p = "zero" -> 0
      [] p = "unit" -> 1
      [] p = "alt10" -> IF a % 2 = 0 THEN 10 ELSE -10
      [] p = "big80" -> 80
      [] p = "spike200" -> IF a = size_1 THEN 200 ELSE 0
      [] p = "spike100" -> IF a = size_1 THEN 100 ELSE 0
\* the (size_123,3) array of forces, flattened row by row
Field(p) ==
    [q \in Dof123 |-> IF q % 3 = ProfileAxis(p) THEN ProfileVal(p, q \div 3) ELSE 0]
GetForcesOutputs == {Field(p) : p \in Profiles}
MinimizeForces == {Field(p) : p \in CycleProfiles}

\* Coordinates: the grid read from the xyz file and the grids the engine may
\* return after relaxing region 1.
XyzGrid == [q \in Dof123 |-> IF q % 3 = 0 THEN 2 * (q \div 3) ELSE 0]
RelaxedGrid(k) ==
    [q \in Dof123 |->
        IF q \div 3 < size_1 /\ q % 3 = 2 THEN k + (q \div 3) ELSE XyzGrid[q]]
MinimizeGrids == {RelaxedGrid(1), RelaxedGrid(-3)}

\* LGF datasets of the h5 file (xyz basis): 3x3 blocks diag(g0,g1,g2)*w(i,j)
GFDiag(kind) == IF kind = 1 THEN <<1, 2, 3>> ELSE <<2, 1, 4>>
GFWeight(kind, ia, ja) ==
    IF kind = 1 THEN ia + ja + 1 ELSE IF ia = ja + size_1 THEN 5 ELSE 1
\* a dataset: its shape and the rule for its entries
GFData(kind, ncolblocks) ==
    [rows |-> 3 * size_123, cols |-> 3 * ncolblocks, kind |-> kind]
\* G[r, c]
GFEntry(GF, r, c) ==
    IF r % 3 = c % 3
    THEN GFDiag(GF.kind)[(r % 3) + 1] * GFWeight(GF.kind, r \div 3, c \div 3)
    ELSE 0
GFFiles == {GFData(1, size_2), GFData(2, size_2 - 1)}
\* size attributes of the file: those of the grid, or one of them off by one
AttrOffsets == {<<0, 0, 0>>, <<1, 0, 0>>, <<0, -1, 0>>, <<0, 0, 1>>}

\* rotation matrices M (columns m, n, t): the identity and a cyclic permutation
Idx3 == 0 .. 2
MSet == {[p \in Idx3 |-> [q \in Idx3 |-> IF p = q THEN 1 ELSE 0]],
         [p \in Idx3 |-> [q \in Idx3 |-> IF p = (q + 1) % 3 THEN 1 ELSE 0]]}

\* index mappings between dislocation and perfect-bulk geometry (mappingfile):
\* mapping[i][j] = (i_b, j_b) for i in regions 1-3 and j in region 2
Mappings ==
    {[ia \in 0 .. size_123 - 1 |-> [ja \in size_1 .. size_12 - 1 |-> <<ia, ja>>]],
     [ia \in 0 .. size_123 - 1 |->
        [ja \in size_1 .. size_12 - 1 |-> <<size_123 - 1 - ia, ja>>]]}

(* ----------------- relaxation_wlammps.py: relaxation_cycle ------------- *)
ToRat(v) == [q \in DOMAIN v |-> RatOfInt(v[q])]

\* forces_2 = np.reshape(forces[size_1:size_12], (3*(size_12-size_1),1))
Forces2(forces) == [c \in Dof2 |-> forces[3 * size_1 + c]]

\* np.dot(Gm, f2) for the rows first .. 3*size_123-1 of Gm
DotRows(Gm, f2, first) ==
    [r \in 0 .. (3 * size_123 - 1 - first) |->
        SumTo([c \in Dof2 |-> Gm[first + r][c] * f2[c]], 3 * size_2)]

\* dispmax = np.sqrt(max(sum(u**2) for u in disp)), u the rows of the
\* (size_123,3) array disp
Dispmax(disp) ==
    Sqrt(MaxTo([a \in 0 .. size_123 - 1 |->
                  disp[3 * a] * disp[3 * a] + disp[3 * a + 1] * disp[3 * a + 1]
                  + disp[3 * a + 2] * disp[3 * a + 2]], size_123))

\* faulty variant: the clamp is left out
ScaleUnclamped(dispmax) == <<1, 1>>

Scale(dispmax) == IF dispmax < maxdisp THEN <<1, 1>> ELSE Rat(maxdisp, dispmax)

\* grid += scale*disp
UpdateFull(grid, Gm, f2) ==
    LET disp == DotRows(Gm, f2, 0)
        scale == Scale(Dispmax(disp))
    IN  [q \in Dof123 |-> RatAdd(grid[q], RatMulInt(scale, disp[q]))]

\* faulty variant: the LGF rows are taken from row 0 instead of row 3*size_1
UpdatePartialFromRow0(grid, Gm, f2) ==
    LET sub == DotRows(Gm, f2, 0)
    IN  [q \in Dof123 |->
            IF q < 3 * size_1 THEN grid[q]
            ELSE RatAdd(grid[q], RatOfInt(sub[q - 3 * size_1]))]

\* grid[size_1:] -= np.reshape(-np.dot(G[3*size_1:,:],forces_2), ...)
UpdatePartial(grid, Gm, f2) ==
    LET sub == DotRows(Gm, f2, 3 * size_1)
        neg == [r \in 0 .. (3 * (size_123 - size_1) - 1) |-> -(sub[r])]
    IN  [q \in Dof123 |->
            IF q < 3 * size_1 THEN grid[q]
            ELSE RatSub(grid[q], RatOfInt(neg[q - 3 * size_1]))]

\* faulty variant: the final else is missing, the grid comes back as relaxed
relaxation_cycle_NoElse(grid, forces, Gm, meth) ==
    LET f2 == Forces2(forces)
    IN  IF meth = "dislLGF123" \/ meth = "perfbulkLGF123"
        THEN [raised |-> FALSE, grid |-> UpdateFull(ToRat(grid), Gm, f2)]
        ELSE IF meth = "dislLGF23" \/ meth = "perfbulkLGF23"
        THEN [raised |-> FALSE, grid |-> UpdatePartial(ToRat(grid), Gm, f2)]
        ELSE [raised |-> FALSE, grid |-> ToRat(grid)]

\* the LGF update of relaxation_cycle on the engine's (grid, forces)
relaxation_cycle(grid, forces, Gm, meth) ==
    LET f2 == Forces2(forces)
    IN  IF meth = "dislLGF123" \/ meth = "perfbulkLGF123"
        THEN [raised |-> FALSE, grid |-> UpdateFull(ToRat(grid), Gm, f2)]
        ELSE IF meth = "dislLGF23" \/ meth = "perfbulkLGF23"
        THEN [raised |-> FALSE, grid |-> UpdatePartial(ToRat(grid), Gm, f2)]
        ELSE [raised |-> TRUE, grid |-> <<>>]

(* --------------------- relaxation_wlammps.py: setup -------------------- *)
\* np.dot(M.T, np.dot(Gblock, M)) entry (a, b) of block (ib, jb) of GF
RotBlock(GF, Mm, ib, jb, a, b) ==
    SumTo([p \in Idx3 |->
             Mm[p][a] * SumTo([q \in Idx3 |->
                                  GFEntry(GF, 3 * ib + p, 3 * jb + q) * Mm[q][b]], 3)], 3)

BlockInRange(GF, ib, jb) ==
    /\ 0 <= ib /\ 3 * ib + 2 < GF.rows
    /\ 0 <= jb /\ 3 * jb + 2 < GF.cols

RotateDisl(GF, Mm) ==
    [r \in Dof123 |-> [c \in Dof2 |->
        RotBlock(GF, Mm, r \div 3, c \div 3, r % 3, c % 3)]]

RotatePerfbulk(GF, Mm, mapping) ==
    [r \in Dof123 |-> [c \in Dof2 |->
        LET i_b == mapping[r \div 3][(c \div 3) + size_1][1]
            j_b == mapping[r \div 3][(c \div 3) + size_1][2] - size_1
        IN  RotBlock(GF, Mm, i_b, j_b, r % 3, c % 3)]]

PerfbulkBlocksOk(GF, mapping) ==
    \A ia \in 0 .. size_123 - 1 : \A ja \in size_1 .. size_12 - 1 :
        BlockInRange(GF, mapping[ia][ja][1], mapping[ia][ja][2] - size_1)

\* faulty variant: the size_12 test is missing
SizesConsistentNo12(file) ==
    /\ file.size_1 = size_1
    /\ file.size_123 = size_123

\* the three consistency tests on the attributes of the LGF file
SizesConsistent(file) ==
    /\ file.size_1 = size_1
    /\ file.size_12 = size_12
    /\ file.size_123 = size_123

(* --------------------- relaxation_wlammps.py: loop --------------------- *)
\* np.linalg.norm(forces_12) squared
Force2NormSq(f12) == SumTo([q \in Dof12 |-> f12[q] * f12[q]], 3 * size_12)
\* abs(forces_12.flat[abs(forces_12).argmax()])
ForceMax(f12) ==
    Abs(f12[ArgMaxTo([q \in Dof12 |-> Abs(f12[q])], 3 * size_12)])
\* faulty variant: one iteration too many
InRangeInclusive(idx, n) == idx <= n
\* for i in range(args.maxouteriter): is there an iteration idx?
InRange(idx, n) == idx < n
\* faulty variant: <= instead of <
ConvergedLeq(fmax, tol) == fmax <= tol
\* force_max < args.ftol
Converged(fmax, tol) == fmax < tol
\* faulty variant: threshold 1E3
BlownUpLate(normsq) == normsq > (10 * ForceBlowUp) * (10 * ForceBlowUp)
\* force_2norm > 1E2
BlownUp(normsq) == normsq > ForceBlowUp * ForceBlowUp
\* faulty variant: only the last force_max is saved
NpSaveForcesLast(log) ==
    [saved |-> TRUE, data |-> IF log = <<>> THEN <<>> ELSE <<log[Len(log)]>>]
\* np.save('forces.npy', force_evolution)
NpSaveForces(log) == [saved |-> TRUE, data |-> log]

LgfIdle ==
    /\ lpc = "off" /\ LGF_jmin = 0 /\ LGF_jmax = 0 /\ j = 0 /\ d = 0
    /\ G = <<>> /\ Gfile = [saved |-> FALSE, cols |-> <<>>] /\ cg_input = 0
    /\ convlog = <<>> /\ solves = <<>> /\ restarts = 0 /\ killed_at = -1
    /\ first_args = <<0, 0>> /\ plan = <<>> /\ outputs = <<>>

InitRelax ==
    /\ pc = "load"
    /\ method \in MethodArgs
    /\ maxouteriter \in 0 .. MaxOuterIter
    /\ ftol \in FtolArgs
    /\ \E off \in AttrOffsets, gf \in GFFiles :
          h5 = [size_1 |-> size_1 + off[1], size_12 |-> size_12 + off[2],
                size_123 |-> size_123 + off[3], GF |-> gf]
    /\ M \in MSet
    /\ G_mnt = <<>>
    /\ i = 0
    /\ forces_12 = <<>>
    /\ force_evolution = <<>>
    /\ grid_relaxed = <<>>
    /\ forces_2 = <<>>
    /\ grid_mat = <<>>
    /\ datafile = ToRat(XyzGrid)
    /\ forces_npy = [saved |-> FALSE, data |-> <<>>]
    /\ outcome = "INITIAL"
    /\ n_getforces = 0
    /\ n_minimize = 0
    /\ n_cycles = 0
    /\ LgfIdle

\* with h5py.File(args.Gfile) ...: the size tests, then G = f['GF'].value
LoadG ==
    /\ pc = "load"
    /\ pc' = IF SizesConsistent(h5) THEN "rotate" ELSE "error"
    /\ UNCHANGED <<method, maxouteriter, ftol, h5, M, G_mnt, i, forces_12,
                   force_evolution, grid_relaxed, forces_2, grid_mat, datafile,
                   forces_npy, outcome, n_getforces, n_minimize, n_cycles>>
    /\ UNCHANGED lgfVars

\* rotate G from xyz to mnt basis, by method
RotateG ==
    /\ pc = "rotate"
    /\ \/ /\ method \in {"dislLGF123", "dislLGF23"}
          /\ IF h5.GF.rows # size_123 * 3 \/ h5.GF.cols # size_2 * 3
             THEN pc' = "error" /\ G_mnt' = G_mnt
             ELSE pc' = "initforces" /\ G_mnt' = RotateDisl(h5.GF, M)
       \/ /\ method \in {"perfbulkLGF123", "perfbulkLGF23"}
          /\ \E mapping \in Mappings :
                IF PerfbulkBlocksOk(h5.GF, mapping)
                THEN pc' = "initforces" /\ G_mnt' = RotatePerfbulk(h5.GF, M, mapping)
                ELSE pc' = "error" /\ G_mnt' = G_mnt
       \/ /\ method \notin Methods
          /\ pc' = "error" /\ G_mnt' = G_mnt
    /\ UNCHANGED <<method, maxouteriter, ftol, h5, M, i, forces_12,
                   force_evolution, grid_relaxed, forces_2, grid_mat, datafile,
                   forces_npy, outcome, n_getforces, n_minimize, n_cycles>>
    /\ UNCHANGED lgfVars

\* forces = lammps_getforces(ls, ...); force_evolution = []
InitialForces ==
    /\ pc = "initforces"
    /\ \E forces \in GetForcesOutputs :
          forces_12' = [q \in Dof12 |-> forces[q]]
    /\ n_getforces' = n_getforces + 1
    /\ force_evolution' = <<>>
    /\ i' = 0
    /\ pc' = "loop"
    /\ UNCHANGED <<method, maxouteriter, ftol, h5, M, G_mnt, grid_relaxed,
                   forces_2, grid_mat, datafile, forces_npy, outcome,
                   n_minimize, n_cycles>>
    /\ UNCHANGED lgfVars

\* head of one outer iteration: norms, append, the two break tests
IterCheck ==
    /\ pc = "loop"
    /\ InRange(i, maxouteriter)
    /\ LET force_max == ForceMax(forces_12)
           normsq == Force2NormSq(forces_12)
       IN  /\ force_evolution' = Append(force_evolution, force_max)
           /\ IF Converged(force_max, ftol)
              THEN pc' = "save" /\ outcome' = "CONVERGED"
              ELSE IF BlownUp(normsq)
              THEN pc' = "save" /\ outcome' = "DIVERGED"
              ELSE pc' = "cycle" /\ outcome' = "RELAXING"
    /\ UNCHANGED <<method, maxouteriter, ftol, h5, M, G_mnt, i, forces_12,
                   grid_relaxed, forces_2, grid_mat, datafile, forces_npy,
                   n_getforces, n_minimize, n_cycles>>
    /\ UNCHANGED lgfVars

\* the else branch: relaxation_cycle, rewrite the data file, new forces
CouplingCycle ==
    /\ pc = "cycle"
    /\ \E grid \in MinimizeGrids, forces \in MinimizeForces :
          LET res == relaxation_cycle(grid, forces, G_mnt, method)
          IN  /\ grid_relaxed' = ToRat(grid)
              /\ forces_2' = Forces2(forces)
              /\ n_minimize' = n_minimize + 1
              /\ n_cycles' = n_cycles + 1
              /\ IF res.raised
                 THEN /\ pc' = "error"
                      /\ UNCHANGED <<grid_mat, datafile, forces_12, n_getforces, i>>
                 ELSE /\ grid_mat' = res.grid
                      /\ datafile' = grid_mat'
                      /\ \E forces_new \in GetForcesOutputs :
                            forces_12' = [q \in Dof12 |-> forces_new[q]]
                      /\ n_getforces' = n_getforces + 1
                      /\ i' = i + 1
                      /\ pc' = "loop"
    /\ UNCHANGED <<method, maxouteriter, ftol, h5, M, G_mnt, force_evolution,
                   forces_npy, outcome>>
    /\ UNCHANGED lgfVars

\* range(args.maxouteriter) is exhausted
LoopExhausted ==
    /\ pc = "loop"
    /\ ~InRange(i, maxouteriter)
    /\ pc' = "save"
    /\ outcome' = "MAX_ITER_REACHED"
    /\ UNCHANGED <<method, maxouteriter, ftol, h5, M, G_mnt, i, forces_12,
                   force_evolution, grid_relaxed, forces_2, grid_mat, datafile,
                   forces_npy, n_getforces, n_minimize, n_cycles>>
    /\ UNCHANGED lgfVars

\* np.save('forces.npy', force_evolution)
SaveLog ==
    /\ pc = "save"
    /\ forces_npy' = NpSaveForces(force_evolution)
    /\ pc' = "done"
    /\ UNCHANGED <<method, maxouteriter, ftol, h5, M, G_mnt, i, forces_12,
                   force_evolution, grid_relaxed, forces_2, grid_mat, datafile,
                   outcome, n_getforces, n_minimize, n_cycles>>
    /\ UNCHANGED lgfVars

NextRelax ==
    \/ LoadG
    \/ RotateG
    \/ InitialForces
    \/ IterCheck
    \/ CouplingCycle
    \/ LoopExhausted
    \/ SaveLog

SpecRelax == InitRelax /\ [][NextRelax]_vars

\* relaxation_cycle used as a function of the module: a caller passes it a
\* rotated G and any method string
InitCall ==
    /\ pc = "call"
    /\ method \in MethodArgs
    /\ maxouteriter = 0
    /\ ftol = 0
    /\ h5 = <<>>
    /\ M = <<>>
    /\ \E kind \in {1, 2}, Mm \in MSet : G_mnt = RotateDisl(GFData(kind, size_2), Mm)
    /\ i = 0
    /\ forces_12 = <<>>
    /\ force_evolution = <<>>
    /\ grid_relaxed = <<>>
    /\ forces_2 = <<>>
    /\ grid_mat = <<>>
    /\ datafile = ToRat(XyzGrid)
    /\ forces_npy = [saved |-> FALSE, data |-> <<>>]
    /\ outcome = "INITIAL"
    /\ n_getforces = 0
    /\ n_minimize = 0
    /\ n_cycles = 0
    /\ LgfIdle

\* one call: the engine relaxes region 1, then the update by method or the
\* ValueError of the final else
CallRelaxationCycle ==
    /\ pc = "call"
    /\ \E grid \in MinimizeGrids, forces \in MinimizeForces :
          LET res == relaxation_cycle(grid, forces, G_mnt, method)
          IN  /\ grid_relaxed' = ToRat(grid)
              /\ forces_2' = Forces2(forces)
              /\ n_minimize' = n_minimize + 1
              /\ IF res.raised
                 THEN pc' = "raised" /\ grid_mat' = grid_mat
                 ELSE pc' = "returned" /\ grid_mat' = res.grid
    /\ UNCHANGED <<method, maxouteriter, ftol, h5, M, G_mnt, i, forces_12,
                   force_evolution, datafile, forces_npy, outcome, n_getforces,
                   n_cycles>>
    /\ UNCHANGED lgfVars

InitModule == InitRelax \/ InitCall

NextModule ==
    \/ NextRelax
    \/ CallRelaxationCycle

\* the driver run as a script, or relaxation_cycle called on its own
SpecModule == InitModule /\ [][NextModule]_vars

(* --------------------------- calc_LGF.py ------------------------------- *)
DofIn == 0 .. (3 * size_in - 1)
\* values of -LGF_jmin / -LGF_jmax: not given (-1) or an atom of region 2
AtomArgs == {-1} \cup (size_1 .. (size_12 - 1))
\* the read-only inputs (D, grid, elastic constants) a run may be given
CgInputs == {1, 2, 3}

\* f = np.zeros((3*size_in,)); f[j*3+d] = 1
UnitForce(jj, dd) == [q \in DofIn |-> IF q = jj * 3 + dd THEN 1 ELSE 0]

\* D.dot(np.reshape(u_bc, 3*size_all)) restricted to the "in" region: the
\* correction forces, which sit beyond region 3 and depend on the atom and on
\* the direction of the unit force
BoundaryCorrection(input, jj, dd) ==
    [q \in DofIn |->
        IF q >= 3 * size_123 THEN (((input + jj) * (dd + 1) + q) % 3) - 1 ELSE 0]

\* f += D.dot(...)
EffectiveForce(input, jj, dd) ==
    [q \in DofIn |-> UnitForce(jj, dd)[q] + BoundaryCorrection(input, jj, dd)[q]]

\* [uf, conv] = sla.cg(D[0:3*size_in,0:3*size_in], f, tol=1e-08): a response
\* to f fixed by the inputs, and a status that is 0 (converged), > 0
\* (iteration limit) or < 0 (breakdown)
CgResponse(input, w, r) == (((r + 1) * w + input * r) % 13) - 6
CgSolve(input, f) ==
    LET w == SumTo([q \in DofIn |-> (q + 1) * f[q]], 3 * size_in)
    IN  [uf |-> [r \in DofIn |-> CgResponse(input, w, r)],
         conv |-> CASE input = 1 -> 0
                    [] input = 2 -> IF w % 2 = 0 THEN 30 * size_in ELSE 0
                    [] OTHER -> IF w % 3 = 0 THEN -1 ELSE 0]

\* faulty variant: a solution that did not converge is replaced by zeros
ColumnIfConverged(res) ==
    [r \in Dof123 |-> IF res.conv = 0 THEN res.uf[r] ELSE 0]

\* uf[0:3*size_123], the column recorded for a solve
Column(res) == [r \in Dof123 |-> res.uf[r]]

\* faulty variant: every atom's first direction starts the matrix afresh
IsFirstColumnOfAtom(jj, dd, jmin) == dd = 0

\* (j == LGF_jmin) and (d == 0)
IsFirstColumn(jj, dd, jmin) == jj = jmin /\ dd = 0

\* G = uf[...].copy()  or  G = np.column_stack((G, uf[...]))
StackColumn(Gm, first, col) == IF first THEN <<col>> ELSE Append(Gm, col)

\* faulty variant: only the columns of the atom just finished are saved
NpSaveLastAtom(Gm) ==
    [saved |-> TRUE, cols |-> SubSeq(Gm, Len(Gm) - 2, Len(Gm))]

\* np.save(args.Gfile, G)
NpSaveG(Gm) == [saved |-> TRUE, cols |-> Gm]

\* if LGF_jmin < 0: LGF_jmin = size_1 ; if LGF_jmax < 0: LGF_jmax = size_12-1
DefaultJmin(a) == IF a < 0 THEN size_1 ELSE a
DefaultJmax(b) == IF b < 0 THEN size_12 - 1 ELSE b

RelaxIdle ==
    /\ pc = "off" /\ method = "" /\ maxouteriter = 0 /\ ftol = 0
    /\ h5 = <<>> /\ M = <<>> /\ G_mnt = <<>> /\ i = 0 /\ forces_12 = <<>>
    /\ force_evolution = <<>> /\ grid_relaxed = <<>> /\ forces_2 = <<>>
    /\ grid_mat = <<>> /\ datafile = <<>>
    /\ forces_npy = [saved |-> FALSE, data |-> <<>>] /\ outcome = "INITIAL"
    /\ n_getforces = 0 /\ n_minimize = 0 /\ n_cycles = 0

\* one run of calc_LGF.py, which may be killed and started again
InitLGF ==
    /\ lpc = "start"
    /\ LGF_jmin \in AtomArgs
    /\ LGF_jmax \in AtomArgs
    /\ first_args = <<LGF_jmin, LGF_jmax>>
    /\ cg_input \in CgInputs
    /\ j = 0
    /\ d = 0
    /\ G = <<>>
    /\ Gfile = [saved |-> FALSE, cols |-> <<>>]
    /\ convlog = <<>>
    /\ solves = [a \in 0 .. size_in - 1 |-> 0]
    /\ restarts = 0
    /\ killed_at = -1
    /\ plan = <<>>
    /\ outputs = <<>>
    /\ RelaxIdle

\* the defaults of the range and the entry into the loop over atoms
StartAssembly ==
    /\ lpc = "start"
    /\ LGF_jmin' = DefaultJmin(LGF_jmin)
    /\ LGF_jmax' = DefaultJmax(LGF_jmax)
    /\ j' = LGF_jmin'
    /\ d' = 0
    /\ lpc' = IF LGF_jmin' <= LGF_jmax' THEN "solve" ELSE "done"
    /\ UNCHANGED <<G, Gfile, cg_input, convlog, solves, restarts, killed_at,
                   first_args, plan, outputs>>
    /\ UNCHANGED relaxVars

\* the body of the loop over d: force, boundary correction, solve, stack
SolveColumn ==
    /\ lpc = "solve"
    /\ LET res == CgSolve(cg_input, EffectiveForce(cg_input, j, d))
       IN  /\ convlog' = Append(convlog, res.conv)
           /\ G' = StackColumn(G, IsFirstColumn(j, d, LGF_jmin), Column(res))
    /\ solves' = [solves EXCEPT ![j] = @ + 1]
    /\ IF d < 2 THEN d' = d + 1 /\ lpc' = "solve" ELSE d' = d /\ lpc' = "save"
    /\ UNCHANGED <<LGF_jmin, LGF_jmax, j, Gfile, cg_input, restarts, killed_at,
                   first_args, plan, outputs>>
    /\ UNCHANGED relaxVars

\* np.save after the three directions of an atom, then the next atom
SaveCheckpoint ==
    /\ lpc = "save"
    /\ Gfile' = NpSaveG(G)
    /\ j' = j + 1
    /\ d' = 0
    /\ lpc' = IF j + 1 <= LGF_jmax THEN "solve" ELSE "done"
    /\ UNCHANGED <<LGF_jmin, LGF_jmax, G, cg_input, convlog, solves, restarts,
                   killed_at, first_args, plan, outputs>>
    /\ UNCHANGED relaxVars

\* the process is killed inside the loop: its memory is lost, the file stays
Kill ==
    /\ lpc \in {"solve", "save"}
    /\ restarts < MaxRestarts
    /\ killed_at' = IF lpc = "solve" /\ d = 0 /\ j > LGF_jmin THEN j - 1 ELSE -2
    /\ G' = <<>>
    /\ lpc' = "killed"
    /\ UNCHANGED <<LGF_jmin, LGF_jmax, j, d, Gfile, cg_input, convlog, solves,
                   restarts, first_args, plan, outputs>>
    /\ UNCHANGED relaxVars

\* the program is started again on the same inputs and the same Gfile, over
\* the original range or over the atoms after the last checkpoint
Restart ==
    /\ lpc = "killed"
    /\ \E args \in {first_args} \cup
                   (IF killed_at >= 0 THEN {<<killed_at + 1, first_args[2]>>} ELSE {}) :
          /\ LGF_jmin' = args[1]
          /\ LGF_jmax' = args[2]
    /\ restarts' = restarts + 1
    /\ convlog' = <<>>
    /\ j' = 0
    /\ d' = 0
    /\ lpc' = "start"
    /\ UNCHANGED <<G, Gfile, cg_input, solves, killed_at, first_args, plan, outputs>>
    /\ UNCHANGED relaxVars

NextLGF ==
    \/ StartAssembly
    \/ SolveColumn
    \/ SaveCheckpoint
    \/ Kill
    \/ Restart

SpecLGF == InitLGF /\ [][NextLGF]_vars

\* A range [a, b] assembled as one batch and then atom by atom, every run
\* writing a Gfile of its own.
RECURSIVE SingleAtomRanges(_, _)
SingleAtomRanges(a, b) ==
    IF a > b THEN <<>> ELSE <<(<<a, a>>)>> \o SingleAtomRanges(a + 1, b)

InitBatch ==
    /\ lpc = "start"
    /\ LGF_jmin \in size_1 .. (size_12 - 1)
    /\ LGF_jmax \in LGF_jmin .. (size_12 - 1)
    /\ first_args = <<LGF_jmin, LGF_jmax>>
    /\ plan = SingleAtomRanges(LGF_jmin, LGF_jmax)
    /\ outputs = <<>>
    /\ cg_input \in CgInputs
    /\ j = 0
    /\ d = 0
    /\ G = <<>>
    /\ Gfile = [saved |-> FALSE, cols |-> <<>>]
    /\ convlog = <<>>
    /\ solves = [a \in 0 .. size_in - 1 |-> 0]
    /\ restarts = 0
    /\ killed_at = -1
    /\ RelaxIdle

\* a run has completed: its Gfile is kept and the next run of the plan starts
NextRun ==
    /\ lpc = "done"
    /\ outputs' = Append(outputs, [jmin |-> LGF_jmin, jmax |-> LGF_jmax, file |-> Gfile])
    /\ IF plan = <<>>
       THEN /\ lpc' = "finished"
            /\ UNCHANGED <<LGF_jmin, LGF_jmax, plan>>
       ELSE /\ lpc' = "start"
            /\ LGF_jmin' = Head(plan)[1]
            /\ LGF_jmax' = Head(plan)[2]
            /\ plan' = Tail(plan)
    /\ G' = <<>>
    /\ Gfile' = [saved |-> FALSE, cols |-> <<>>]
    /\ convlog' = <<>>
    /\ j' = 0
    /\ d' = 0
    /\ UNCHANGED <<cg_input, solves, restarts, killed_at, first_args>>
    /\ UNCHANGED relaxVars

NextBatch ==
    \/ StartAssembly
    \/ SolveColumn
    \/ SaveCheckpoint
    \/ NextRun

SpecBatch == InitBatch /\ [][NextBatch]_vars

(* ------------------ relaxation loop: properties ------------------------ *)
LogLen == Len(force_evolution)
LoopLeft == pc \in {"save", "done"}
FullMethod == method \in {"dislLGF123", "perfbulkLGF123"}
PartialMethod == method \in {"dislLGF23", "perfbulkLGF23"}
\* a relaxation_cycle has returned a grid
CycleReturned == n_cycles >= 1 /\ pc \in {"loop", "cycle", "save", "done"}
\* what the last cycle added to coordinate q of the engine's grid
Applied(q) == RatSub(grid_mat[q], grid_relaxed[q])
\* row q of the rotated LGF times the coupling forces of the last cycle
Uncapped(q) == SumTo([c \in Dof2 |-> G_mnt[q][c] * forces_2[c]], 3 * size_2)
\* squared length of the uncapped displacement of atom a
UncappedSq(a) ==
    Uncapped(3 * a) * Uncapped(3 * a) + Uncapped(3 * a + 1) * Uncapped(3 * a + 1)
    + Uncapped(3 * a + 2) * Uncapped(3 * a + 2)

\* C1: the loop stops at the first outer iteration k whose max force is below
\* the tolerance; then the log has k entries, the k-th being the converging
\* value and the only one below the tolerance, k-1 coupling cycles were done
\* (k-1 relaxations, k force evaluations), and nothing is called afterwards.
C1_StopsAtFirstConvergedIteration ==
    /\ \A m \in 1 .. LogLen :
          force_evolution[m] < ftol =>
             /\ m = LogLen
             /\ LoopLeft
             /\ outcome = "CONVERGED"
    /\ (LoopLeft /\ outcome = "CONVERGED") =>
          /\ LogLen >= 1
          /\ force_evolution[LogLen] < ftol
          /\ force_evolution[LogLen] = ForceMax(forces_12)
          /\ i = LogLen - 1
          /\ n_cycles = LogLen - 1
          /\ n_minimize = LogLen - 1
          /\ n_getforces = LogLen

C1_Witness ==
    /\ pc = "done"
    /\ outcome = "CONVERGED"
    /\ ftol = 1
    /\ force_evolution = <<10, 1, 0>>
    /\ n_cycles = 2

\* C2: an iteration whose max force is not below the tolerance and whose force
\* norm exceeds 1e2 ends the loop (DIVERGED) with no coupling cycle and no
\* further engine call; an initial force norm above the threshold, such as 200,
\* leaves the initial force evaluation as the only engine call.
C2_DivergenceStopsLoop ==
    /\ [](/\ pc = "cycle" =>
                Force2NormSq(forces_12) <= ForceBlowUp * ForceBlowUp
          /\ outcome = "DIVERGED" =>
                /\ LoopLeft
                /\ LogLen >= 1
                /\ force_evolution[LogLen] >= ftol
                /\ Force2NormSq(forces_12) > ForceBlowUp * ForceBlowUp
                /\ n_cycles = LogLen - 1
                /\ n_minimize = LogLen - 1
                /\ n_getforces = LogLen)
    /\ [][(/\ n_getforces = 1
           /\ InRange(0, maxouteriter)
           /\ Force2NormSq(forces_12) > ForceBlowUp * ForceBlowUp)
          => (/\ n_getforces' = 1
              /\ n_minimize' = 0
              /\ n_cycles' = 0
              /\ pc' \in {"loop", "save", "done"}
              /\ (pc' # "loop" => Len(force_evolution') = 1))]_vars

C2_Witness ==
    /\ pc = "done"
    /\ outcome = "DIVERGED"
    /\ force_evolution = <<200>>
    /\ Force2NormSq(forces_12) = 200 * 200
    /\ n_getforces = 1
    /\ n_minimize = 0

\* an upper bound on the number of steps the driver still takes
Rank ==
    CASE pc = "load" -> 2 * maxouteriter + 6
      [] pc = "rotate" -> 2 * maxouteriter + 5
      [] pc = "initforces" -> 2 * maxouteriter + 4
      [] pc = "loop" -> 2 * (maxouteriter - i) + 3
      [] pc = "cycle" -> 2 * (maxouteriter - i) + 2
      [] pc = "save" -> 1
      [] OTHER -> 0

\* C3: whatever the engine returns, there are at most maxouteriter outer
\* iterations and at most maxouteriter coupling cycles, every step brings the
\* driver nearer to its end, the loop ends as MAX_ITER_REACHED exactly when all
\* maxouteriter iterations ran without a break, and the log accumulated so
\* far is what gets written out.
C3_IterationCap ==
    /\ [](/\ i <= maxouteriter
          /\ LogLen <= maxouteriter
          /\ n_cycles <= maxouteriter
          /\ Rank >= 0
          /\ outcome = "MAX_ITER_REACHED" =>
                /\ LoopLeft
                /\ LogLen = maxouteriter
                /\ n_cycles = maxouteriter
                /\ \A m \in 1 .. LogLen : force_evolution[m] >= ftol
          /\ pc = "done" =>
                /\ outcome \in {"CONVERGED", "DIVERGED", "MAX_ITER_REACHED"}
                /\ forces_npy.saved
                /\ forces_npy.data = force_evolution)
    /\ [][Rank' < Rank]_vars

C3_Witness ==
    /\ pc = "done"
    /\ outcome = "MAX_ITER_REACHED"
    /\ maxouteriter = 3
    /\ n_cycles = 3
    /\ forces_npy.data = <<10, 1, 10>>

\* C4 as stated: under the full methods the added displacement is s times
\* LGF*forces with s = 1 when the root-mean-square displacement is below the
\* cap and s = cap/RMS otherwise (RMS^2 = sum over atoms of |u|^2 / size_123).
C4_RmsClamp ==
    (CycleReturned /\ FullMethod) =>
        LET sumsq == SumTo([a \in 0 .. size_123 - 1 |-> UncappedSq(a)], size_123)
        IN  IF sumsq < maxdisp * maxdisp * size_123
            THEN \A q \in Dof123 : Applied(q) = RatOfInt(Uncapped(q))
            ELSE \E s \in {Rat(Applied(q)[1], Applied(q)[2] * Abs(Uncapped(q))) :
                             q \in {x \in Dof123 : Uncapped(x) # 0}} :
                    /\ \A q \in Dof123 : Applied(q) = RatMulInt(s, Uncapped(q))
                    /\ s[1] * s[1] * sumsq = maxdisp * maxdisp * size_123 * s[2] * s[2]

\* C4 amended: under the full methods the added displacement is s times
\* LGF*forces with one scalar s for all atoms and components; s = 1 when the
\* largest displacement of a single atom is below the cap (100) and
\* s = cap/(largest atom displacement) otherwise, so that no atom is moved by
\* more than the cap.
C4_MaxAtomClamp ==
    (CycleReturned /\ FullMethod) =>
        LET dmax == Sqrt(MaxTo([a \in 0 .. size_123 - 1 |-> UncappedSq(a)], size_123))
            s == IF dmax < maxdisp THEN <<1, 1>> ELSE Rat(maxdisp, dmax)
        IN  /\ \A q \in Dof123 : Applied(q) = RatMulInt(s, Uncapped(q))
            /\ dmax >= maxdisp => s[1] * dmax = maxdisp * s[2]
            /\ \A a \in 0 .. size_123 - 1 :
                  LET x == Applied(3 * a)
                      y == Applied(3 * a + 1)
                      z == Applied(3 * a + 2)
                      den == x[2] * y[2] * z[2]
                  IN  (x[1] * y[2] * z[2]) * (x[1] * y[2] * z[2])
                      + (y[1] * x[2] * z[2]) * (y[1] * x[2] * z[2])
                      + (z[1] * x[2] * y[2]) * (z[1] * x[2] * y[2])
                      <= maxdisp * maxdisp * den * den

\* largest atom displacement 500 against the cap 100: scaled by exactly 1/5
C4_Witness ==
    /\ CycleReturned
    /\ method = "dislLGF123"
    /\ MaxTo([a \in 0 .. size_123 - 1 |-> UncappedSq(a)], size_123) = 500 * 500
    /\ \A q \in Dof123 : Applied(q) = Rat(Uncapped(q), 5)
    /\ \E q \in Dof123 : Applied(q) = <<100, 1>>

\* C5: under the partial methods the cycle leaves every core coordinate as the
\* engine returned it and adds to each coupling and buffer coordinate the
\* product of its own LGF row (rows 3*size_1 onward) with the coupling forces.
C5_PartialLeavesCore ==
    (CycleReturned /\ PartialMethod) =>
        /\ \A q \in 0 .. (3 * size_1 - 1) : grid_mat[q] = grid_relaxed[q]
        /\ \A q \in (3 * size_1) .. (3 * size_123 - 1) :
              Applied(q) = RatOfInt(Uncapped(q))

C5_Witness ==
    /\ CycleReturned
    /\ method = "dislLGF23"
    /\ \E q \in 0 .. (3 * size_1 - 1) :
          grid_relaxed[q] # RatOfInt(XyzGrid[q]) /\ Uncapped(q) # 0
    /\ \E q \in (3 * size_1) .. (3 * size_123 - 1) : Applied(q) # <<0, 1>>

\* C8: when a size attribute of the LGF file differs from the grid's, the
\* driver goes from the load to the error exit: no rotated LGF, no engine
\* call, no iteration, no cycle and no force log on disk.
C8_SizeMismatchAborts ==
    (h5.size_1 # size_1 \/ h5.size_12 # size_12 \/ h5.size_123 # size_123) =>
        /\ pc \in {"load", "error"}
        /\ G_mnt = <<>>
        /\ n_getforces = 0
        /\ n_minimize = 0
        /\ n_cycles = 0
        /\ i = 0
        /\ force_evolution = <<>>
        /\ ~forces_npy.saved

C8_Witness ==
    /\ pc = "error"
    /\ h5.size_1 = size_1 + 1
    /\ h5.size_12 = size_12
    /\ h5.size_123 = size_123
    /\ method = "dislLGF123"

\* C9 as stated: after every outer iteration the log on disk holds every
\* max-force value appended so far.
C9_LogOnDiskAfterEachIteration ==
    (pc = "loop" /\ i >= 1) =>
        (forces_npy.saved /\ forces_npy.data = force_evolution)

\* C9 amended: the log is written to disk once, when the loop has ended
\* (converged, diverged or out of iterations), and then holds every max-force
\* value in order, one per outer iteration begun; until then nothing of it is
\* on disk.
C9_LogSavedOnceAtEnd ==
    /\ pc = "done" =>
          /\ forces_npy.saved
          /\ forces_npy.data = force_evolution
          /\ Len(forces_npy.data) = IF outcome = "MAX_ITER_REACHED" THEN i ELSE i + 1
    /\ pc \in {"load", "rotate", "initforces", "loop", "cycle", "save"} =>
          ~forces_npy.saved

C9_Witness ==
    /\ pc = "done"
    /\ forces_npy.saved
    /\ forces_npy.data = <<10, 10, 200>>

(* ------------------- LGF assembly: properties -------------------------- *)
\* the displacements of regions 1-3 that the solve for (atom jj, direction dd)
\* returns on the inputs of this run
SolvedColumn(jj, dd) ==
    LET res == CgSolve(cg_input, EffectiveForce(cg_input, jj, dd))
    IN  [r \in 0 .. (3 * size_123 - 1) |-> res.uf[r]]
\* cols holds exactly the columns of atoms lo..hi, by atom and then direction
HoldsAtoms(cols, lo, hi) ==
    /\ Len(cols) = 3 * (hi - lo + 1)
    /\ \A jj \in lo .. hi : \A dd \in 0 .. 2 :
          cols[3 * (jj - lo) + dd + 1] = SolvedColumn(jj, dd)
RECURSIVE ConcatFiles(_, _)
\* the columns of outputs[from], outputs[from+1], ... put side by side
ConcatFiles(outs, from) ==
    IF from > Len(outs) THEN <<>>
    ELSE outs[from].file.cols \o ConcatFiles(outs, from + 1)

\* C6: columns are emitted by ascending atom and, within an atom, direction
\* 0,1,2: the column of (j, d) sits at position 3*(j - j_min) + d and is the
\* same whatever the range, so the file of the batch [a, b] equals the files
\* of the single-atom batches [a,a], ..., [b,b] put side by side.
C6_ColumnOrderBatchIndependent ==
    /\ lpc = "solve" => Len(G) = 3 * (j - LGF_jmin) + d
    /\ \A n \in 1 .. Len(outputs) :
          LET o == outputs[n]
          IN  /\ o.file.saved
              /\ Len(o.file.cols) = 3 * (o.jmax - o.jmin + 1)
              /\ n >= 2 =>
                    /\ o.jmin = outputs[1].jmin + (n - 2)
                    /\ o.jmax = o.jmin
                    /\ \A dd \in 0 .. 2 :
                          outputs[1].file.cols[3 * (o.jmin - outputs[1].jmin) + dd + 1]
                             = o.file.cols[dd + 1]
    /\ lpc = "finished" =>
          /\ Len(outputs) = (outputs[1].jmax - outputs[1].jmin + 1) + 1
          /\ outputs[1].file.cols = ConcatFiles(outputs, 2)

C6_Witness ==
    /\ lpc = "finished"
    /\ Len(outputs) = 4
    /\ outputs[1].jmin = size_1
    /\ outputs[1].jmax = size_1 + 2
    /\ Len(outputs[1].file.cols) = 9
    /\ \A m, n \in 1 .. 9 : m # n => outputs[1].file.cols[m] # outputs[1].file.cols[n]

\* the range a run started with first_args works on
FirstRange == <<DefaultJmin(first_args[1]), DefaultJmax(first_args[2])>>
\* the run was killed right after the checkpoint of atom killed_at, started
\* again and has completed
ResumedAndDone == lpc = "done" /\ restarts >= 1 /\ killed_at >= 0

\* C7 as stated: after an interruption right after atom k's checkpoint and a
\* resumed computation, the persisted matrix is that of an uninterrupted run
\* over [j_min, j_max] and no finished atom was computed again.
C7_ResumeIdenticalNoRecompute ==
    ResumedAndDone =>
        /\ HoldsAtoms(Gfile.cols, FirstRange[1], FirstRange[2])
        /\ \A jj \in FirstRange[1] .. killed_at : solves[jj] = 3

\* C7 amended: a kill right after atom k's checkpoint leaves on disk exactly
\* the columns of atoms j_min..k.  Running the program again over the same
\* range ends with the matrix of an uninterrupted run, and computes the atoms
\* up to k a second time; running it over [k+1, j_max] computes nothing twice
\* and ends with a file that holds the columns of atoms k+1..j_max only.
C7_RerunRecomputesFinishedAtoms ==
    /\ (lpc = "killed" /\ killed_at >= 0) =>
          /\ Gfile.saved
          /\ HoldsAtoms(Gfile.cols, LGF_jmin, killed_at)
    /\ (lpc = "done" /\ LGF_jmin <= LGF_jmax) =>
          /\ Gfile.saved
          /\ HoldsAtoms(Gfile.cols, LGF_jmin, LGF_jmax)
    /\ (ResumedAndDone /\ LGF_jmin <= killed_at) =>
          \A jj \in LGF_jmin .. killed_at : solves[jj] >= 6
    /\ (ResumedAndDone /\ LGF_jmin = killed_at + 1 /\ FirstRange[1] <= killed_at) =>
          /\ Len(Gfile.cols) = 3 * (LGF_jmax - killed_at)
          /\ Len(Gfile.cols) < 3 * (FirstRange[2] - FirstRange[1] + 1)
          /\ restarts = 1 => \A jj \in FirstRange[1] .. FirstRange[2] : solves[jj] = 3

\* killed after atom size_1, run again over the whole region 2
C7_Witness ==
    /\ ResumedAndDone
    /\ killed_at = size_1
    /\ <<LGF_jmin, LGF_jmax>> = FirstRange
    /\ FirstRange = <<size_1, size_12 - 1>>
    /\ HoldsAtoms(Gfile.cols, size_1, size_12 - 1)
    /\ solves[size_1] = 6

\* C10: whatever status a solve reports, its solution is stacked as the next
\* column and its status logged, and the loop goes on: a completed run over
\* [j_min, j_max] leaves exactly 3*(j_max - j_min + 1) columns on disk.
C10_NonConvergenceNotFatal ==
    /\ lpc \in {"solve", "save"} =>
          /\ Len(convlog) = 3 * (j - LGF_jmin) + (IF lpc = "save" THEN 3 ELSE d)
          /\ Len(G) = Len(convlog)
          /\ \A n \in 1 .. Len(G) :
                G[n] = SolvedColumn(LGF_jmin + ((n - 1) \div 3), (n - 1) % 3)
    /\ (lpc = "done" /\ LGF_jmin <= LGF_jmax) =>
          /\ Gfile.saved
          /\ Len(Gfile.cols) = 3 * (LGF_jmax - LGF_jmin + 1)
          /\ Len(convlog) = 3 * (LGF_jmax - LGF_jmin + 1)
          /\ \A n \in 1 .. Len(Gfile.cols) :
                Gfile.cols[n] = SolvedColumn(LGF_jmin + ((n - 1) \div 3), (n - 1) % 3)

C10_Witness ==
    /\ lpc = "done"
    /\ restarts = 0
    /\ Len(Gfile.cols) = 3 * NCoupling
    /\ \E n \in 1 .. Len(convlog) : convlog[n] > 0
    /\ \E n \in 1 .. Len(convlog) : convlog[n] = 0
    /\ \A n \in 1 .. Len(convlog) :
          convlog[n] # 0 => \E r \in 0 .. (3 * size_123 - 1) : Gfile.cols[n][r] # 0

(* ---------------------- method dispatch: properties -------------------- *)
DriverRun == pc \in {"load", "rotate", "initforces", "loop", "cycle", "save", "done", "error"}

\* C11: with a method name outside the four valid ones the driver never gets
\* past the setup (load, rotate): it stops in the error exit with no engine
\* call, no coupling cycle, no log entry and no saved log; and a call of
\* relaxation_cycle with such a name raises and hands back no grid, while a
\* call with a valid name returns one.
C11_InvalidMethodFatal ==
    /\ (DriverRun /\ method \notin Methods) =>
          /\ pc \in {"load", "rotate", "error"}
          /\ n_getforces = 0 /\ n_minimize = 0 /\ n_cycles = 0
          /\ force_evolution = <<>> /\ ~forces_npy.saved
          /\ grid_mat = <<>> /\ datafile = ToRat(XyzGrid)
    /\ pc \in {"raised", "returned"} =>
          /\ (pc = "raised") = (method \notin Methods)
          /\ pc = "raised" => grid_mat = <<>> /\ datafile = ToRat(XyzGrid)
          /\ pc = "returned" => DOMAIN grid_mat = Dof123

\* the sizes and the shape of the LGF file are right, only the name is not
C11_Witness ==
    /\ pc = "error"
    /\ method = "DISLLGF123"
    /\ SizesConsistent(h5)
    /\ h5.GF.rows = size_123 * 3 /\ h5.GF.cols = size_2 * 3
    /\ n_getforces = 0 /\ n_minimize = 0

(* ------------------- log and final configuration ----------------------- *)
\* C12: when the loop has been left (converged, diverged or range exhausted)
\* after at least one possible iteration, the last entry of the log is the max
\* force of the forces evaluated on the coordinates last written to the data
\* file, and every force evaluation has an entry in the log.
C12_LogReflectsFinalConfiguration ==
    (LoopLeft /\ maxouteriter >= 1) =>
        /\ LogLen >= 1
        /\ force_evolution[LogLen] = ForceMax(forces_12)
        /\ LogLen = n_getforces

=============================================================================
